---- MODULE Spec2Model ----
(***************************************************************************)
(* Model of package provisioning (src/provisioning/provisioning.go): the   *)
(* SubmitConfig setters, and SubmitConfig.Run with its poll loop and the   *)
(* optional DELETE of the session resource.                                *)
(*                                                                         *)
(* Strings that the code parses (URIs) are sequences of atoms; a pointer   *)
(* is a sequence of length 0 (nil) or 1 (the pointee).                     *)
(***************************************************************************)
EXTENDS Integers, Sequences, FiniteSets, TLC

\* ------------------------------------------------------------------ bounds
\* longest candidate URI (in atoms) handed to SetSubmitURI
MaxUriLen == 3
\* largest value the poll budget common.MaxAttempts takes
MaxBudget == 3
\* most Run calls made on one configuration
MaxCalls == 2

\* ------------------------------------------------------------- pointers
Nil == <<>>
Ptr(x) == <<x>>
Deref(p) == p[1]

\* ------------------------------------------------------------------ URIs
\* A URI is a sequence of atoms.  "https", "HTTPS" and "http" are runs of
\* letters, "1" is a digit, "DEL" is the control byte 0x7f.
LetterAtoms == {"https", "HTTPS", "http"}
DigitAtoms == {"1"}
Atoms == LetterAtoms \cup DigitAtoms \cup {":", "/", "DEL"}

RECURSIVE SeqsUpTo(_)
SeqsUpTo(n) ==
  IF n = 0 THEN {<<>>}
  ELSE LET shorter == SeqsUpTo(n - 1)
       IN  shorter \cup {Append(s, a) : s \in {t \in shorter : Len(t) = n - 1}, a \in Atoms}

CandidateURIs == SeqsUpTo(MaxUriLen)

ToLower(a) == IF a = "HTTPS" THEN "https" ELSE a

LowerAll(s) == [i \in 1..Len(s) |-> ToLower(s[i])]

Contains(s, a) == \E i \in 1..Len(s) : s[i] = a

HasPrefix(s, p) == Len(s) >= Len(p) /\ SubSeq(s, 1, Len(p)) = p

\* index of the first occurrence of a in s, or Len(s)+1
IndexOf(s, a) ==
  IF Contains(s, a) THEN CHOOSE i \in 1..Len(s) : s[i] = a /\ \A k \in 1..(i - 1) : s[k] # a
  ELSE Len(s) + 1

\* index of the last occurrence of a in s, or 0
LastIndexOf(s, a) ==
  IF Contains(s, a) THEN CHOOSE i \in 1..Len(s) : s[i] = a /\ \A k \in (i + 1)..Len(s) : s[k] # a
  ELSE 0

\* net/url getScheme: scan for the ':' that ends a scheme
RECURSIVE getScheme(_, _)
getScheme(rawURL, i) ==
  IF i > Len(rawURL) THEN [err |-> "", scheme |-> <<>>, rest |-> rawURL]
  ELSE IF rawURL[i] \in LetterAtoms THEN getScheme(rawURL, i + 1)
  ELSE IF rawURL[i] \in DigitAtoms THEN
         IF i = 1 THEN [err |-> "", scheme |-> <<>>, rest |-> rawURL]
         ELSE getScheme(rawURL, i + 1)
  ELSE IF rawURL[i] = ":" THEN
         IF i = 1 THEN [err |-> "missing protocol scheme", scheme |-> <<>>, rest |-> <<>>]
         ELSE [err |-> "", scheme |-> SubSeq(rawURL, 1, i - 1),
               rest |-> SubSeq(rawURL, i + 1, Len(rawURL))]
  ELSE [err |-> "", scheme |-> <<>>, rest |-> rawURL]

\* net/url validOptionalPort applied to the part of the authority from its
\* last ':' on: only digits may follow the colon
validOptionalPort(colonPort) == \A k \in 2..Len(colonPort) : colonPort[k] \in DigitAtoms

\* net/url parseHost on the authority of a URI that starts with "//"
parseHostErr(rest) ==
  LET afterSlashes == SubSeq(rest, 3, Len(rest))
      authority == SubSeq(afterSlashes, 1, IndexOf(afterSlashes, "/") - 1)
      i == LastIndexOf(authority, ":")
  IN  IF i # 0 /\ ~validOptionalPort(SubSeq(authority, i, Len(authority)))
      THEN "invalid port after host" ELSE ""

\* net/url Parse: the error ("" for none) and the lower-cased scheme
Parse(rawURL) ==
  IF Contains(rawURL, "DEL") THEN [err |-> "invalid control character in URL", Scheme |-> <<>>]
  ELSE LET g == getScheme(rawURL, 1)
           scheme == LowerAll(g.scheme)
       IN  IF g.err # "" THEN [err |-> g.err, Scheme |-> <<>>]
           ELSE IF ~HasPrefix(g.rest, <<"/">>) THEN
                  IF scheme # <<>> THEN [err |-> "", Scheme |-> scheme]
                  ELSE IF Contains(SubSeq(g.rest, 1, IndexOf(g.rest, "/") - 1), ":")
                       THEN [err |-> "first path segment in URL cannot contain colon",
                             Scheme |-> <<>>]
                       ELSE [err |-> "", Scheme |-> scheme]
           ELSE IF HasPrefix(g.rest, <<"/", "/">>)
                   /\ (scheme # <<>> \/ ~HasPrefix(g.rest, <<"/", "/", "/">>))
                   /\ parseHostErr(g.rest) # ""
                THEN [err |-> parseHostErr(g.rest), Scheme |-> <<>>]
           ELSE [err |-> "", Scheme |-> scheme]

\* net/url URL.IsAbs
IsAbs(u) == u.Scheme # <<>>

\* the scheme of a well-formed URI is exactly "https"
IsHTTPS(u) == u.Scheme = <<"https">>

\* ---------------------------------------------------------------- errors
\* An error value: msg is the fixed part of the message ("" for a nil error),
\* code and text are what the format verbs put into it.
Err(m, c, t) == [msg |-> m, code |-> c, text |-> t]
NoErr == Err("", 0, "")

\* --------------------------------------------------------- configuration
sessionMediaType == "application/vnd.veraison.provisioning-session+json"

\* the zero value SubmitConfig{}
ZeroConfig ==
  [CACerts |-> <<>>, Client |-> Nil, SubmitURI |-> <<>>, Auth |-> "nil",
   DeleteSession |-> FALSE, UseTLS |-> FALSE, IsInsecure |-> FALSE]

VARIABLES
  cfg,          \* the caller's SubmitConfig
  lastErr,      \* the error returned by the most recent setter that returns one
  lastArg,      \* how url.Parse saw the argument of the most recent SetSubmitURI
  lastAuth,     \* pointer to the argument of the most recent SetAuth (nil: no call yet)
  MaxAttempts,  \* common.MaxAttempts, the poll budget
  calls,        \* the number of Run calls made on cfg so far
  pc,           \* where the Run call is: idle, post, get, sleep, delete, done
  rcfg,         \* Run's receiver: its own copy of the configuration
  attempt,      \* the poll loop's counter
  sessionURI,   \* the session resource URI Run polls and deletes
  postRes,      \* pointer to the response PostResource returned
  polls,        \* the responses the poll GETs returned, in order
  pollRet,      \* pointer to what pollForSubmissionCompletion returned
  delRes,       \* pointer to the error DeleteResource returned
  ret,          \* what Run returned
  log           \* the client calls and sleeps of this Run, in order

vars == <<cfg, lastErr, lastArg, lastAuth, MaxAttempts, calls, pc, rcfg, attempt, sessionURI, postRes,
          polls, pollRet, delRes, ret, log>>

runVars == <<MaxAttempts, calls, pc, rcfg, attempt, sessionURI, postRes, polls,
             pollRet, delRes, ret, log>>

NoRet == [session |-> Nil, err |-> NoErr]

\* no Run call has been made
RunIdle(c) ==
  /\ calls = 0
  /\ pc = "idle"
  /\ rcfg = c
  /\ attempt = 0
  /\ sessionURI = <<>>
  /\ postRes = Nil
  /\ polls = <<>>
  /\ pollRet = Nil
  /\ delRes = Nil
  /\ ret = NoRet
  /\ log = <<>>

\* ------------------------------------------------------------- responses
\* A JSON object is a set of <<key, value>> pairs; a body is empty, not JSON,
\* or a JSON object.
Body(k, o) == [kind |-> k, obj |-> o]

Objects ==
  { {<<"status", "success">>, <<"expiry", "e1">>},
    {<<"status", "success">>, <<"expiry", "e2">>, <<"extra", "x">>},
    {<<"status", "failed">>, <<"expiry", "e1">>},
    {<<"status", "failed">>, <<"expiry", "e1">>, <<"failure-reason", "r1">>},
    {<<"status", "processing">>, <<"expiry", "e1">>},
    {<<"status", "whatever">>, <<"expiry", "e1">>},
    {<<"expiry", "e1">>} }

\* ContentLength with the body it comes with: 0 or -1 (unknown) with an
\* empty body, a positive length with a non-empty one
Payloads ==
  {[ContentLength |-> 0, Body |-> Body("empty", {})],
   [ContentLength |-> -1, Body |-> Body("empty", {})],
   [ContentLength |-> 7, Body |-> Body("garbage", {})]}
  \cup {[ContentLength |-> 7, Body |-> Body("json", o)] : o \in Objects}

ContentTypes == {sessionMediaType, "application/json"}

StatusCodes == {200, 201, 404}

\* Location header values: absent, absolute, relative, unparsable
AbsLocation == Ptr(<<"http", ":", "/", "1">>)
Locations == {Nil, AbsLocation, Ptr(<<"/", "1">>), Ptr(<<"DEL">>)}

Response(e, sc, pl, ct, loc) ==
  [err |-> e, StatusCode |-> sc, ContentLength |-> pl.ContentLength,
   ContentType |-> ct, Body |-> pl.Body, Location |-> loc]

\* the request could not be sent
TransportFailure(e) ==
  Response(e, 0, [ContentLength |-> 0, Body |-> Body("empty", {})], "", Nil)

\* what a server may answer a POST with (all Location values on a 201)
PostResponses ==
  {TransportFailure("no such host")}
  \cup {r \in {Response("", sc, pl, ct, loc) :
                 sc \in StatusCodes, pl \in Payloads, ct \in ContentTypes, loc \in Locations} :
          r.StatusCode = 201 \/ r.Location \in {Nil, AbsLocation}}

\* what a server may answer a GET with
GetResponses ==
  {TransportFailure("no such host")}
  \cup {Response("", sc, pl, ct, Nil) : sc \in StatusCodes, pl \in Payloads, ct \in ContentTypes}

\* net/http sends a request only to a well-formed http or https URI
Sendable(uri) == Parse(uri).err = "" /\ Parse(uri).Scheme \in {<<"http">>, <<"https">>}

\* the possible results of a request to uri
Answers(uri, responses) ==
  IF Sendable(uri) THEN responses ELSE {TransportFailure("unsupported protocol scheme")}

\* ---------------------------------------------------------------- decoder
HasField(obj, key) == \E p \in obj : p[1] = key

Field(obj, key) == IF HasField(obj, key) THEN (CHOOSE p \in obj : p[1] = key)[2] ELSE ""

\* common.DecodeJSONBody into a SubmitSession: absent fields keep their zero
\* values, unknown fields are ignored
DecodeJSONBody(res) ==
  IF res.Body.kind = "json"
  THEN [j |-> [Status |-> Field(res.Body.obj, "status"),
               Expiry |-> Field(res.Body.obj, "expiry"),
               FailureReason |-> IF HasField(res.Body.obj, "failure-reason")
                                 THEN Ptr(Field(res.Body.obj, "failure-reason")) ELSE Nil],
        err |-> ""]
  ELSE [j |-> [Status |-> "", Expiry |-> "", FailureReason |-> Nil],
        err |-> IF res.Body.kind = "empty" THEN "EOF" ELSE "invalid character"]

sessionFromResponse(res) ==
  IF res.ContentLength = 0 THEN [j |-> Nil, err |-> Err("empty body", 0, "")]
  ELSE IF res.ContentType # sessionMediaType
  THEN [j |-> Nil, err |-> Err("session resource with unexpected content type", 0, res.ContentType)]
  ELSE LET d == DecodeJSONBody(res)
       IN  IF d.err # "" THEN [j |-> Nil, err |-> Err("failure decoding session resource", 0, d.err)]
           ELSE [j |-> Ptr(d.j), err |-> NoErr]

\* url.URL.ResolveReference for a reference without a scheme
ResolveReference(base, ref) ==
  LET b == getScheme(base, 1)
  IN  IF HasPrefix(ref, <<"/">>) THEN b.scheme \o <<":">> \o ref
      ELSE b.scheme \o <<":">> \o SubSeq(b.rest, 1, LastIndexOf(b.rest, "/")) \o ref

\* common.ExtractLocation: the Location header resolved against the base URI
ExtractLocation(res, baseURI) ==
  IF res.Location = Nil THEN [uri |-> <<>>, err |-> "no Location header found in response"]
  ELSE IF Parse(Deref(res.Location)).err # "" THEN [uri |-> <<>>, err |-> "malformed Location"]
  ELSE IF IsAbs(Parse(Deref(res.Location))) THEN [uri |-> Deref(res.Location), err |-> ""]
  ELSE [uri |-> ResolveReference(baseURI, Deref(res.Location)), err |-> ""]

\* --------------------------------------------------------------- clients
\* common.Client: how its transport was built and the authenticator it holds
Client(k, a, certs) == [kind |-> k, Auth |-> a, CACerts |-> certs]

\* common.NewClient
NewClient(a) == Client("plain", a, <<>>)

\* common.NewInsecureTLSClient
NewInsecureTLSClient(a) == Client("insecureTLS", a, <<>>)

\* common.NewTLSClient: fails when a CA certificate cannot be loaded
NewTLSClient(a, certs) ==
  IF Contains(certs, "bad.pem")
  THEN [client |-> Nil, err |-> Err("could not read cert", 0, "bad.pem")]
  ELSE [client |-> Ptr(Client("TLS", a, certs)), err |-> NoErr]

\* check without the test of the submit URI
checkNothing(c) == NoErr

check(c) ==
  IF c.SubmitURI = <<>> THEN Err("bad configuration: no API endpoint", 0, "") ELSE NoErr

\* initClient looking at IsInsecure before UseTLS
initClientInsecureFirst(c) ==
  IF c.Client # Nil THEN [cfg |-> c, err |-> NoErr]
  ELSE IF c.IsInsecure
  THEN [cfg |-> [c EXCEPT !.Client = Ptr(NewInsecureTLSClient(c.Auth))], err |-> NoErr]
  ELSE IF ~c.UseTLS THEN [cfg |-> [c EXCEPT !.Client = Ptr(NewClient(c.Auth))], err |-> NoErr]
  ELSE LET n == NewTLSClient(c.Auth, c.CACerts)
       IN  [cfg |-> [c EXCEPT !.Client = n.client], err |-> n.err]

\* initClient on configuration c: the configuration afterwards and the error
initClient(c) ==
  IF c.Client # Nil THEN [cfg |-> c, err |-> NoErr]
  ELSE IF ~c.UseTLS THEN [cfg |-> [c EXCEPT !.Client = Ptr(NewClient(c.Auth))], err |-> NoErr]
  ELSE IF c.IsInsecure
  THEN [cfg |-> [c EXCEPT !.Client = Ptr(NewInsecureTLSClient(c.Auth))], err |-> NoErr]
  ELSE LET n == NewTLSClient(c.Auth, c.CACerts)
       IN  [cfg |-> [c EXCEPT !.Client = n.client], err |-> n.err]

\* ------------------------------------------------------------ SetSubmitURI
\* a candidate URI as url.Parse and IsAbs see it
Classify(uri) ==
  IF Parse(uri).err # "" THEN "malformed"
  ELSE IF IsAbs(Parse(uri)) THEN "absolute" ELSE "relative"

\* SetSubmitURI deriving the TLS flag before it tests IsAbs
SetSubmitURITLSFirst(uri) ==
  LET u == Parse(uri)
  IN  /\ pc = "idle"
      /\ lastArg' = Classify(uri)
      /\ IF u.err # "" THEN
           /\ lastErr' = Err("malformed URI", 0, u.err)
           /\ cfg' = cfg
         ELSE IF ~IsAbs(u) THEN
           /\ lastErr' = Err("uri is not absolute", 0, "")
           /\ cfg' = [cfg EXCEPT !.UseTLS = IsHTTPS(u)]
         ELSE
           /\ lastErr' = NoErr
           /\ cfg' = [cfg EXCEPT !.UseTLS = IsHTTPS(u), !.SubmitURI = uri]
      /\ UNCHANGED <<lastAuth, runVars>>

\* SetSubmitURI switching the TLS flag on for https and never off
SetSubmitURINeverOff(uri) ==
  LET u == Parse(uri)
  IN  /\ pc = "idle"
      /\ lastArg' = Classify(uri)
      /\ IF u.err # "" THEN
           /\ lastErr' = Err("malformed URI", 0, u.err)
           /\ cfg' = cfg
         ELSE IF ~IsAbs(u) THEN
           /\ lastErr' = Err("uri is not absolute", 0, "")
           /\ cfg' = cfg
         ELSE
           /\ lastErr' = NoErr
           /\ cfg' = [cfg EXCEPT !.UseTLS = cfg.UseTLS \/ IsHTTPS(u), !.SubmitURI = uri]
      /\ UNCHANGED <<lastAuth, runVars>>

SetSubmitURI(uri) ==
  LET u == Parse(uri)
  IN  /\ pc = "idle"
      /\ lastArg' = Classify(uri)
      /\ IF u.err # "" THEN
           /\ lastErr' = Err("malformed URI", 0, u.err)
           /\ cfg' = cfg
         ELSE IF ~IsAbs(u) THEN
           /\ lastErr' = Err("uri is not absolute", 0, "")
           /\ cfg' = cfg
         ELSE
           /\ lastErr' = NoErr
           /\ cfg' = [cfg EXCEPT !.UseTLS = IsHTTPS(u), !.SubmitURI = uri]
      /\ UNCHANGED <<lastAuth, runVars>>

\* SubmitConfig literals differing from the zero value in the TLS flag only
InitURI ==
  /\ cfg \in {[ZeroConfig EXCEPT !.UseTLS = b] : b \in BOOLEAN}
  /\ lastErr = NoErr
  /\ lastArg = "none"
  /\ lastAuth = Nil
  /\ MaxAttempts = MaxBudget
  /\ RunIdle(cfg)

NextURI == \E uri \in CandidateURIs : SetSubmitURI(uri)

SpecURI == InitURI /\ [][NextURI]_vars

\* SetSubmitURI calls on the zero value SubmitConfig{}
InitZero ==
  /\ cfg = ZeroConfig
  /\ lastErr = NoErr
  /\ lastArg = "none"
  /\ lastAuth = Nil
  /\ MaxAttempts = MaxBudget
  /\ RunIdle(cfg)

SpecZero == InitZero /\ [][NextURI]_vars

\* ------------------------------------------------------ the other setters
Authenticators == {"nil", "a1", "a2"}

\* the clients a caller hands to SetClient (nil included)
SuppliedClients == {Nil} \cup {Ptr(Client("supplied", a, <<>>)) : a \in {"nil", "a1"}}

CertPaths == {<<>>, <<"good.pem">>, <<"bad.pem">>}

SetClient(client) ==
  /\ pc = "idle"
  /\ IF client = Nil THEN
       /\ lastErr' = Err("no client supplied", 0, "")
       /\ cfg' = cfg
     ELSE
       /\ lastErr' = NoErr
       /\ cfg' = [cfg EXCEPT !.Client =
                    IF cfg.Auth # "nil" THEN Ptr([Deref(client) EXCEPT !.Auth = cfg.Auth])
                    ELSE client]
  /\ UNCHANGED <<lastArg, lastAuth, runVars>>

SetDeleteSession(session) ==
  /\ pc = "idle"
  /\ cfg' = [cfg EXCEPT !.DeleteSession = session]
  /\ UNCHANGED <<lastErr, lastArg, lastAuth, runVars>>

\* SetAuth leaving the authenticator of an existing client alone
SetAuthConfigOnly(a) ==
  /\ pc = "idle"
  /\ lastAuth' = Ptr(a)
  /\ cfg' = [cfg EXCEPT !.Auth = a]
  /\ UNCHANGED <<lastErr, lastArg, runVars>>

SetAuth(a) ==
  /\ pc = "idle"
  /\ lastAuth' = Ptr(a)
  /\ cfg' = [cfg EXCEPT !.Auth = a,
                        !.Client = IF cfg.Client # Nil
                                   THEN Ptr([Deref(cfg.Client) EXCEPT !.Auth = a])
                                   ELSE Nil]
  /\ UNCHANGED <<lastErr, lastArg, runVars>>

SetIsInsecure(val) ==
  /\ pc = "idle"
  /\ cfg' = [cfg EXCEPT !.IsInsecure = val]
  /\ UNCHANGED <<lastErr, lastArg, lastAuth, runVars>>

SetCerts(paths) ==
  /\ pc = "idle"
  /\ cfg' = [cfg EXCEPT !.CACerts = paths]
  /\ UNCHANGED <<lastErr, lastArg, lastAuth, runVars>>

\* a call of initClient on the caller's configuration
InitClientCall ==
  /\ pc = "idle"
  /\ cfg' = initClient(cfg).cfg
  /\ lastErr' = initClient(cfg).err
  /\ UNCHANGED <<lastArg, lastAuth, runVars>>

\* SubmitConfig literals the setters are called on
CfgLiterals ==
  [CACerts : {<<>>},
   Client : SuppliedClients,
   SubmitURI : {<<"http", ":", "/">>},
   Auth : {"nil", "a1"},
   DeleteSession : {FALSE},
   UseTLS : BOOLEAN,
   IsInsecure : {FALSE}]

InitCfg ==
  /\ cfg \in CfgLiterals
  /\ lastErr = NoErr
  /\ lastArg = "none"
  /\ lastAuth = Nil
  /\ MaxAttempts = MaxBudget
  /\ RunIdle(cfg)

NextCfg ==
  \/ \E client \in SuppliedClients : SetClient(client)
  \/ \E session \in BOOLEAN : SetDeleteSession(session)
  \/ \E a \in Authenticators : SetAuth(a)
  \/ \E val \in BOOLEAN : SetIsInsecure(val)
  \/ \E paths \in CertPaths : SetCerts(paths)
  \/ InitClientCall

SpecCfg == InitCfg /\ [][NextCfg]_vars

\* -------------------------------------------------------------------- Run
\* an entry of log: a call on the client (via "Client" for the methods of
\* common.Client, "HTTPClient" for those of its http.Client) or a sleep
Call(o, uri, v) == [op |-> o, uri |-> uri, via |-> v]

Count(o) == Cardinality({i \in 1..Len(log) : log[i].op = o})

\* the error for a session whose status is "failed"
submissionFailed(j) ==
  IF j.FailureReason # Nil THEN Err("submission failed: ", 0, Deref(j.FailureReason))
  ELSE Err("submission failed", 0, "")

Returning(s, e) == [next |-> "return", session |-> s, err |-> e, uri |-> <<>>]

\* syncOutcome with the failed status not told from an unexpected one
syncOutcomeSuccessOnly(j) ==
  IF j.Status = "success" THEN Returning(Ptr(j), NoErr)
  ELSE Returning(Nil, Err("unexpected session state in 200 response", 0, j.Status))

\* syncOutcome handing out the session along with the error
syncOutcomeSessionAndError(j) ==
  IF j.Status = "success" THEN Returning(Ptr(j), NoErr)
  ELSE IF j.Status = "failed" THEN Returning(Ptr(j), submissionFailed(j))
  ELSE Returning(Ptr(j), Err("unexpected session state in 200 response", 0, j.Status))

\* Run on a 200 response that decoded to session j
syncOutcome(j) ==
  IF j.Status = "success" THEN Returning(Ptr(j), NoErr)
  ELSE IF j.Status = "failed" THEN Returning(Nil, submissionFailed(j))
  ELSE Returning(Nil, Err("unexpected session state in 200 response", 0, j.Status))

\* asyncOutcome without the test of the session status
asyncOutcomeAnyStatus(j, res, c) ==
  LET x == ExtractLocation(res, c.SubmitURI)
  IN  IF x.err # ""
      THEN Returning(Nil, Err("cannot determine URI for the session resource", 0, x.err))
      ELSE [next |-> "poll", session |-> Nil, err |-> NoErr, uri |-> x.uri]

\* asyncOutcome going on to poll when ExtractLocation failed
asyncOutcomeAnyLocation(j, res, c) ==
  LET x == ExtractLocation(res, c.SubmitURI)
  IN  IF j.Status # "processing"
      THEN Returning(Nil, Err("unexpected session state in 201 response", 0, j.Status))
      ELSE [next |-> "poll", session |-> Nil, err |-> NoErr, uri |-> x.uri]

\* Run on a 201 response res that decoded to session j, up to the call of
\* the poller
asyncOutcome(j, res, c) ==
  LET x == ExtractLocation(res, c.SubmitURI)
  IN  IF j.Status # "processing"
      THEN Returning(Nil, Err("unexpected session state in 201 response", 0, j.Status))
      ELSE IF x.err # ""
      THEN Returning(Nil, Err("cannot determine URI for the session resource", 0, x.err))
      ELSE [next |-> "poll", session |-> Nil, err |-> NoErr, uri |-> x.uri]

\* afterPost decoding the body before it looks at the status code
afterPostDecodeFirst(res, c) ==
  IF res.err # "" THEN Returning(Nil, Err("submit request failed", 0, res.err))
  ELSE LET d == sessionFromResponse(res)
       IN  IF d.err # NoErr THEN Returning(Nil, d.err)
           ELSE IF res.StatusCode # 200 /\ res.StatusCode # 201
           THEN Returning(Nil, Err("unexpected HTTP response code", res.StatusCode, ""))
           ELSE IF res.StatusCode = 200 THEN syncOutcome(Deref(d.j))
           ELSE asyncOutcome(Deref(d.j), res, c)

\* Run from the return of PostResource up to the call of the poller
afterPost(res, c) ==
  IF res.err # "" THEN Returning(Nil, Err("submit request failed", 0, res.err))
  ELSE IF res.StatusCode # 200 /\ res.StatusCode # 201
  THEN Returning(Nil, Err("unexpected HTTP response code", res.StatusCode, ""))
  ELSE LET d == sessionFromResponse(res)
       IN  IF d.err # NoErr THEN Returning(Nil, d.err)
           ELSE IF res.StatusCode = 200 THEN syncOutcome(Deref(d.j))
           ELSE asyncOutcome(Deref(d.j), res, c)

\* pollOutcome returning no session on success
pollOutcomeNoSession(j) ==
  IF j.Status = "success" THEN Returning(Nil, NoErr)
  ELSE IF j.Status = "failed" THEN Returning(Nil, submissionFailed(j))
  ELSE IF j.Status = "processing"
  THEN [next |-> "sleep", session |-> Nil, err |-> NoErr, uri |-> <<>>]
  ELSE Returning(Nil, Err("unexpected session state in 200 response", 0, j.Status))

\* pollOutcome giving up on the last attempt before it looks at the status
pollOutcomeBudgetFirst(j) ==
  IF attempt + 1 >= MaxAttempts
  THEN Returning(Nil, Err("polling attempts exhausted, session resource state still not complete",
                          0, ""))
  ELSE IF j.Status = "success" THEN Returning(Ptr(j), NoErr)
  ELSE IF j.Status = "failed" THEN Returning(Nil, submissionFailed(j))
  ELSE IF j.Status = "processing"
  THEN [next |-> "sleep", session |-> Nil, err |-> NoErr, uri |-> <<>>]
  ELSE Returning(Nil, Err("unexpected session state in 200 response", 0, j.Status))

\* the poller's switch on the status of the session j it fetched
pollOutcome(j) ==
  IF j.Status = "success" THEN Returning(Ptr(j), NoErr)
  ELSE IF j.Status = "failed" THEN Returning(Nil, submissionFailed(j))
  ELSE IF j.Status = "processing"
  THEN [next |-> "sleep", session |-> Nil, err |-> NoErr, uri |-> <<>>]
  ELSE Returning(Nil, Err("unexpected session state in 200 response", 0, j.Status))

\* pollStep sleeping and trying again when Get fails
pollStepRetries(res) ==
  IF res.err # "" THEN [next |-> "sleep", session |-> Nil, err |-> NoErr, uri |-> <<>>]
  ELSE IF res.StatusCode # 200
  THEN Returning(Nil, Err("session resource fetch returned an unexpected status",
                          res.StatusCode, ""))
  ELSE LET d == sessionFromResponse(res)
       IN  IF d.err # NoErr THEN Returning(Nil, d.err)
           ELSE pollOutcome(Deref(d.j))

\* one iteration of the poll loop, from the return of Get on
pollStep(res) ==
  IF res.err # "" THEN Returning(Nil, Err("session resource fetch failed", 0, res.err))
  ELSE IF res.StatusCode # 200
  THEN Returning(Nil, Err("session resource fetch returned an unexpected status",
                          res.StatusCode, ""))
  ELSE LET d == sessionFromResponse(res)
       IN  IF d.err # NoErr THEN Returning(Nil, d.err)
           ELSE pollOutcome(Deref(d.j))

PollTimeout ==
  Err("polling attempts exhausted, session resource state still not complete", 0, "")

\* the loop condition with <= for <
loopCondInclusive(a) == a <= MaxAttempts

\* the poll loop's condition
loopCond(a) == a < MaxAttempts

\* Run returns (s, e)
Return(s, e) ==
  /\ pc' = "done"
  /\ ret' = [session |-> s, err |-> e]

\* afterPoll deleting the session resource whatever DeleteSession says
afterPollAlwaysDeletes(s, e, uri, lg) ==
  /\ pollRet' = Ptr([session |-> s, err |-> e])
  /\ log' = Append(lg, Call("DeleteResource", uri, "Client"))
  /\ pc' = "delete"
  /\ ret' = ret

\* Run once the poller has returned (s, e) for the session resource at uri,
\* lg being the log so far
afterPoll(s, e, uri, lg) ==
  /\ pollRet' = Ptr([session |-> s, err |-> e])
  /\ IF rcfg.DeleteSession
     THEN /\ log' = Append(lg, Call("DeleteResource", uri, "Client"))
          /\ pc' = "delete"
          /\ ret' = ret
     ELSE /\ log' = lg
          /\ Return(s, e)

\* loopHead fetching the submit URI instead of the session URI
loopHeadSubmitURI(a, uri, lg) ==
  /\ attempt' = a
  /\ IF loopCond(a)
     THEN /\ log' = Append(lg, Call("Get", rcfg.SubmitURI, "HTTPClient"))
          /\ pc' = "get"
          /\ UNCHANGED <<pollRet, ret>>
     ELSE afterPoll(Nil, PollTimeout, uri, lg)

\* the head of the poll loop with the counter at a
loopHead(a, uri, lg) ==
  /\ attempt' = a
  /\ IF loopCond(a)
     THEN /\ log' = Append(lg, Call("Get", uri, "HTTPClient"))
          /\ pc' = "get"
          /\ UNCHANGED <<pollRet, ret>>
     ELSE afterPoll(Nil, PollTimeout, uri, lg)

\* Run with a pointer receiver: initClient works on the caller's SubmitConfig
RunPointerReceiver ==
  /\ pc = "idle"
  /\ IF check(cfg) # NoErr
     THEN /\ Return(Nil, check(cfg))
          /\ UNCHANGED <<cfg, rcfg, log>>
     ELSE IF initClient(cfg).err # NoErr
     THEN /\ cfg' = initClient(cfg).cfg
          /\ rcfg' = initClient(cfg).cfg
          /\ Return(Nil, initClient(cfg).err)
          /\ UNCHANGED log
     ELSE /\ cfg' = initClient(cfg).cfg
          /\ rcfg' = initClient(cfg).cfg
          /\ log' = Append(log, Call("PostResource", cfg.SubmitURI, "Client"))
          /\ pc' = "post"
          /\ UNCHANGED ret
  /\ calls' = calls + 1
  /\ UNCHANGED <<lastErr, lastArg, lastAuth, MaxAttempts, attempt, sessionURI, postRes, polls, pollRet, delRes>>

\* Run is called on a copy of the caller's SubmitConfig (value receiver):
\* check, initClient on the copy and the call of PostResource
Run ==
  /\ pc = "idle"
  /\ IF check(cfg) # NoErr
     THEN /\ Return(Nil, check(cfg))
          /\ UNCHANGED <<rcfg, log>>
     ELSE IF initClient(cfg).err # NoErr
     THEN /\ rcfg' = initClient(cfg).cfg
          /\ Return(Nil, initClient(cfg).err)
          /\ UNCHANGED log
     ELSE /\ rcfg' = initClient(cfg).cfg
          /\ log' = Append(log, Call("PostResource", cfg.SubmitURI, "Client"))
          /\ pc' = "post"
          /\ UNCHANGED ret
  /\ calls' = calls + 1
  /\ UNCHANGED <<cfg, lastErr, lastArg, lastAuth, MaxAttempts, attempt, sessionURI, postRes, polls, pollRet, delRes>>

\* PostResource returns res; Run goes on to its return or to the first Get
PostReturns(res) ==
  /\ pc = "post"
  /\ postRes' = Ptr(res)
  /\ LET o == afterPost(res, rcfg)
     IN  IF o.next = "return"
         THEN /\ Return(o.session, o.err)
              /\ UNCHANGED <<attempt, sessionURI, pollRet, log>>
         ELSE /\ sessionURI' = o.uri
              /\ loopHead(1, o.uri, log)
  /\ UNCHANGED <<cfg, lastErr, lastArg, lastAuth, MaxAttempts, calls, rcfg, polls, delRes>>

\* Get returns res; the poller returns or goes to sleep
GetReturns(res) ==
  /\ pc = "get"
  /\ polls' = Append(polls, res)
  /\ LET o == pollStep(res)
     IN  IF o.next = "return"
         THEN /\ afterPoll(o.session, o.err, sessionURI, log)
              /\ UNCHANGED attempt
         ELSE /\ log' = Append(log, Call("Sleep", <<>>, ""))
              /\ pc' = "sleep"
              /\ UNCHANGED <<attempt, pollRet, ret>>
  /\ UNCHANGED <<cfg, lastErr, lastArg, lastAuth, MaxAttempts, calls, rcfg, sessionURI, postRes, delRes>>

\* SleepReturns without the increment of the loop counter
SleepReturnsSameAttempt ==
  /\ pc = "sleep"
  /\ loopHead(attempt, sessionURI, log)
  /\ UNCHANGED <<cfg, lastErr, lastArg, lastAuth, MaxAttempts, calls, rcfg, sessionURI, postRes, polls, delRes>>

\* time.Sleep returns; the loop counter advances
SleepReturns ==
  /\ pc = "sleep"
  /\ loopHead(attempt + 1, sessionURI, log)
  /\ UNCHANGED <<cfg, lastErr, lastArg, lastAuth, MaxAttempts, calls, rcfg, sessionURI, postRes, polls, delRes>>

\* DeleteReturns with a failed DELETE replacing the poller's result
DeleteReturnsItsError(delErr) ==
  /\ pc = "delete"
  /\ delRes' = Ptr(delErr)
  /\ log' = IF delErr # NoErr THEN Append(log, Call("Printf", sessionURI, "")) ELSE log
  /\ IF delErr # NoErr THEN Return(Nil, delErr)
     ELSE Return(Deref(pollRet).session, Deref(pollRet).err)
  /\ UNCHANGED <<cfg, lastErr, lastArg, lastAuth, MaxAttempts, calls, rcfg, attempt, sessionURI, postRes, polls, pollRet>>

\* DeleteResource returns delErr; Run logs a failure and returns the
\* poller's result
DeleteReturns(delErr) ==
  /\ pc = "delete"
  /\ delRes' = Ptr(delErr)
  /\ log' = IF delErr # NoErr THEN Append(log, Call("Printf", sessionURI, "")) ELSE log
  /\ Return(Deref(pollRet).session, Deref(pollRet).err)
  /\ UNCHANGED <<cfg, lastErr, lastArg, lastAuth, MaxAttempts, calls, rcfg, attempt, sessionURI, postRes, polls, pollRet>>

DeleteErrors == {NoErr, Err("delete failed", 404, "")}

\* ------------------------------------------------------- the Run system
RunURIs == {<<>>, <<"/">>, <<"http", ":", "/">>}

\* the SubmitConfig values Run is called on
RunConfigs ==
  [CACerts : {<<>>, <<"good.pem">>, <<"bad.pem">>},
   Client : {Nil, Ptr(Client("supplied", "nil", <<>>))},
   SubmitURI : RunURIs,
   Auth : {"nil", "a1"},
   DeleteSession : BOOLEAN,
   UseTLS : BOOLEAN,
   IsInsecure : BOOLEAN]

Init ==
  /\ cfg \in RunConfigs
  /\ lastErr = NoErr
  /\ lastArg = "none"
  /\ lastAuth = Nil
  /\ MaxAttempts \in 0..MaxBudget
  /\ RunIdle(cfg)

Next ==
  \/ Run
  \/ \E res \in Answers(rcfg.SubmitURI, PostResponses) : PostReturns(res)
  \/ \E res \in Answers(sessionURI, GetResponses) : GetReturns(res)
  \/ SleepReturns
  \/ \E delErr \in DeleteErrors : DeleteReturns(delErr)

Spec == Init /\ [][Next]_vars

\* Run with every request answered in the end (by a response or a transport
\* error) and every sleep ending
SpecLive ==
  /\ Init
  /\ [][Next]_vars
  /\ WF_vars(\E res \in Answers(rcfg.SubmitURI, PostResponses) : PostReturns(res))
  /\ WF_vars(\E res \in Answers(sessionURI, GetResponses) : GetReturns(res))
  /\ WF_vars(SleepReturns)
  /\ WF_vars(\E delErr \in DeleteErrors : DeleteReturns(delErr))

\* The caller has Run's result and is about to call Run on the same
\* SubmitConfig again: the finished call's receiver copy and locals are gone.
Returned ==
  /\ pc = "done"
  /\ calls < MaxCalls
  /\ pc' = "idle"
  /\ rcfg' = cfg
  /\ attempt' = 0
  /\ sessionURI' = <<>>
  /\ postRes' = Nil
  /\ polls' = <<>>
  /\ pollRet' = Nil
  /\ delRes' = Nil
  /\ ret' = NoRet
  /\ log' = <<>>
  /\ UNCHANGED <<cfg, lastErr, lastArg, lastAuth, MaxAttempts, calls>>

NextAgain ==
  \/ Next
  \/ Returned

\* up to MaxCalls Run calls, one after the other, on one SubmitConfig
SpecAgain == Init /\ [][NextAgain]_vars

\* ------------------------------------------------------------ properties
Last(s) == s[Len(s)]

\* res is a response (not a transport failure) that decodes to a session
Decodes(res) == res.err = "" /\ sessionFromResponse(res).err = NoErr

\* the session res decodes to
SessionOf(res) == Deref(sessionFromResponse(res).j)

\* res is a 200 response whose session has status st
Reports(res, st) == Decodes(res) /\ res.StatusCode = 200 /\ SessionOf(res).Status = st

\* Run has called the poller
PollingStarted == attempt >= 1

Requests == {i \in 1..Len(log) : log[i].op \in {"PostResource", "Get", "DeleteResource"}}

\* C1: with an empty submit URI, Run returns the configuration error and a
\* nil session; it calls nothing on a client and builds no client.
C1_EmptyURI ==
  cfg.SubmitURI = <<>> =>
    /\ pc \in {"idle", "done"}
    /\ log = <<>>
    /\ rcfg.Client = cfg.Client
    /\ pc = "done" =>
         /\ ret.session = Nil
         /\ ret.err = Err("bad configuration: no API endpoint", 0, "")

C1_Witness ==
  /\ pc = "done"
  /\ cfg.SubmitURI = <<>>
  /\ cfg.Client = Nil
  /\ cfg.UseTLS
  /\ cfg.DeleteSession
  /\ ret.err # NoErr

\* C2: after a 200 POST response that decodes to a session, Run has returned
\* what the session's status alone dictates (success: the session and no
\* error; failed: the submission-failed error, with the reason if there is
\* one; anything else: the unexpected-state error naming the status), and
\* the POST is the only request.
C2_Sync200 ==
  (postRes # Nil /\ Decodes(Deref(postRes)) /\ Deref(postRes).StatusCode = 200) =>
    LET j == SessionOf(Deref(postRes))
    IN  /\ pc = "done"
        /\ Len(log) = 1
        /\ log[1].op = "PostResource"
        /\ j.Status = "success" => ret = [session |-> Ptr(j), err |-> NoErr]
        /\ (j.Status = "failed" /\ j.FailureReason # Nil) =>
             ret = [session |-> Nil,
                    err |-> Err("submission failed: ", 0, Deref(j.FailureReason))]
        /\ (j.Status = "failed" /\ j.FailureReason = Nil) =>
             ret = [session |-> Nil, err |-> Err("submission failed", 0, "")]
        /\ j.Status \notin {"success", "failed"} =>
             ret = [session |-> Nil,
                    err |-> Err("unexpected session state in 200 response", 0, j.Status)]

C2_Witness ==
  /\ pc = "done"
  /\ postRes # Nil
  /\ Reports(Deref(postRes), "failed")
  /\ SessionOf(Deref(postRes)).FailureReason = Ptr("r1")
  /\ Deref(postRes).Location # Nil
  /\ cfg.DeleteSession
  /\ ret.err.text = "r1"

\* C3: after a 201 POST response whose session status is not processing,
\* Run has returned the unexpected-state error naming that status and a nil
\* session, and no Get was called.
C3_Async201Status ==
  (/\ postRes # Nil
   /\ Decodes(Deref(postRes))
   /\ Deref(postRes).StatusCode = 201
   /\ SessionOf(Deref(postRes)).Status # "processing") =>
    /\ pc = "done"
    /\ ret = [session |-> Nil,
              err |-> Err("unexpected session state in 201 response", 0,
                          SessionOf(Deref(postRes)).Status)]
    /\ Count("Get") = 0
    /\ ~PollingStarted

C3_Witness ==
  /\ pc = "done"
  /\ postRes # Nil
  /\ Decodes(Deref(postRes))
  /\ Deref(postRes).StatusCode = 201
  /\ SessionOf(Deref(postRes)).Status = "success"
  /\ Deref(postRes).Location = AbsLocation
  /\ MaxAttempts >= 2
  /\ ret.err.text = "success"

\* C4: after a 201 POST response with status processing and no Location
\* header, Run has returned an error and a nil session, and no Get was
\* called on any URI.
C4_NoLocation ==
  (/\ postRes # Nil
   /\ Decodes(Deref(postRes))
   /\ Deref(postRes).StatusCode = 201
   /\ SessionOf(Deref(postRes)).Status = "processing"
   /\ Deref(postRes).Location = Nil) =>
    /\ pc = "done"
    /\ ret.session = Nil
    /\ ret.err.msg = "cannot determine URI for the session resource"
    /\ Count("Get") = 0
    /\ polls = <<>>
    /\ ~PollingStarted

C4_Witness ==
  /\ pc = "done"
  /\ postRes # Nil
  /\ Decodes(Deref(postRes))
  /\ Deref(postRes).StatusCode = 201
  /\ SessionOf(Deref(postRes)).Status = "processing"
  /\ Deref(postRes).Location = Nil
  /\ MaxAttempts >= 2
  /\ ret.err # NoErr

\* every poll response but the last reported processing
ProcessingUntilLast == \A i \in 1..(Len(polls) - 1) : Reports(polls[i], "processing")

\* C5: when Run has returned after polls that reported processing zero or
\* more times and then success, it returned the session decoded from that
\* last poll response, which is not the session of the POST response, and no
\* error.
C5_PollSuccess ==
  (pc = "done" /\ polls # <<>> /\ ProcessingUntilLast /\ Reports(Last(polls), "success")) =>
    /\ ret = [session |-> Ptr(SessionOf(Last(polls))), err |-> NoErr]
    /\ Deref(ret.session).Expiry = Field(Last(polls).Body.obj, "expiry")
    /\ ret.session # Ptr(SessionOf(Deref(postRes)))

C5_Witness ==
  /\ pc = "done"
  /\ Len(polls) >= 2
  /\ Reports(Last(polls), "success")
  /\ ret.session # Nil
  /\ Deref(ret.session).Expiry = "e2"
  /\ SessionOf(Deref(postRes)).Expiry = "e1"

\* every poll response so far reported processing
AllProcessing == \A i \in 1..Len(polls) : Reports(polls[i], "processing")

\* C6: with a budget MaxAttempts >= 1 there are never more than
\* MaxAttempts - 1 calls of Get, and when every poll response reported
\* processing the poller has, once it returned, called Get exactly
\* MaxAttempts - 1 times and returned the timeout error and a nil session.
C6_Budget ==
  MaxAttempts >= 1 =>
    /\ Count("Get") <= MaxAttempts - 1
    /\ (pollRet # Nil /\ AllProcessing) =>
         /\ Count("Get") = MaxAttempts - 1
         /\ Len(polls) = MaxAttempts - 1
         /\ Deref(pollRet) = [session |-> Nil, err |-> PollTimeout]
    /\ (pc = "done" /\ PollingStarted /\ AllProcessing) =>
         ret = [session |-> Nil, err |-> PollTimeout]

C6_Witness ==
  /\ pc = "done"
  /\ MaxAttempts = MaxBudget
  /\ Len(polls) = MaxBudget - 1
  /\ AllProcessing
  /\ ret.err = PollTimeout

\* the poller returned the timeout error with no Get at all
C6_WitnessOne ==
  /\ pc = "done"
  /\ MaxAttempts = 1
  /\ PollingStarted
  /\ polls = <<>>
  /\ ret.err = PollTimeout

\* C7: when the polls reported processing on attempts 1..MaxAttempts-2 and
\* success on attempt MaxAttempts-1, Run has returned the success session
\* and no error, not the timeout error.
C7_LastAttempt ==
  (/\ pc = "done"
   /\ Len(polls) = MaxAttempts - 1
   /\ Len(polls) >= 1
   /\ ProcessingUntilLast
   /\ Reports(Last(polls), "success")) =>
    /\ ret.err = NoErr
    /\ ret.err # PollTimeout
    /\ ret.session # Nil
    /\ Deref(ret.session).Status = "success"

C7_Witness ==
  /\ pc = "done"
  /\ MaxAttempts = MaxBudget
  /\ Len(polls) = MaxBudget - 1
  /\ Len(polls) >= 2
  /\ Reports(polls[1], "processing")
  /\ Reports(Last(polls), "success")
  /\ ret.err = NoErr

Deletes == {i \in 1..Len(log) : log[i].op = "DeleteResource"}

\* C8: with DeleteSession set and the poller called, there is no
\* DeleteResource call before the poller has returned and never more than
\* one; once Run has returned there was exactly one, on the session URI,
\* after every Get, and Run returned what the poller returned whatever
\* DeleteResource returned.
C8_Delete ==
  (cfg.DeleteSession /\ PollingStarted) =>
    /\ Cardinality(Deletes) <= 1
    /\ pollRet = Nil => Deletes = {}
    /\ \A i \in Deletes :
         /\ log[i].uri = sessionURI
         /\ \A k \in Requests : k <= i
    /\ pc = "delete" => (Cardinality(Deletes) = 1 /\ pollRet # Nil)
    /\ pc = "done" =>
         /\ Cardinality(Deletes) = 1
         /\ delRes # Nil
         /\ ret = Deref(pollRet)

C8_Witness ==
  /\ pc = "done"
  /\ cfg.DeleteSession
  /\ PollingStarted
  /\ delRes # Nil
  /\ Deref(delRes) # NoErr
  /\ polls # <<>>
  /\ ret.session # Nil

\* DeleteResource also ran after the poller failed
C8_WitnessFailure ==
  /\ pc = "done"
  /\ cfg.DeleteSession
  /\ Cardinality(Deletes) = 1
  /\ Deref(pollRet).err.msg = "session resource fetch failed"

\* C9: after a POST response whose status code is neither 200 nor 201, Run
\* has returned the unexpected-code error naming the code and a nil session,
\* whatever the body and content type, and the POST is the only request.
C9_BadCode ==
  (postRes # Nil /\ Deref(postRes).err = "" /\ Deref(postRes).StatusCode \notin {200, 201}) =>
    /\ pc = "done"
    /\ ret = [session |-> Nil,
              err |-> Err("unexpected HTTP response code", Deref(postRes).StatusCode, "")]
    /\ Len(log) = 1
    /\ polls = <<>>

C9_Witness ==
  /\ pc = "done"
  /\ postRes # Nil
  /\ Deref(postRes).StatusCode = 404
  /\ Deref(postRes).ContentLength = 0
  /\ ret.err.code = 404

\* the code was not 200 or 201 and the body was a well-formed session
C9_WitnessBody ==
  /\ pc = "done"
  /\ postRes # Nil
  /\ Deref(postRes).StatusCode = 404
  /\ Decodes(Deref(postRes))
  /\ SessionOf(Deref(postRes)).Status = "success"
  /\ ret.err.code = 404

\* C10: a SetSubmitURI call with a malformed or non-absolute URI returns an
\* error and changes no field of the configuration.
C10_RejectedURI ==
  [][lastArg' \in {"malformed", "relative"} => (lastErr' # NoErr /\ cfg' = cfg)]_vars

C10_Witness ==
  /\ lastArg = "malformed"
  /\ lastErr.msg = "malformed URI"
  /\ cfg.SubmitURI # <<>>
  /\ cfg.UseTLS

\* a relative URI was rejected after an earlier call had stored a URI
C10_WitnessRelative ==
  /\ lastArg = "relative"
  /\ lastErr.msg = "uri is not absolute"
  /\ cfg.SubmitURI # <<>>
  /\ ~cfg.UseTLS

\* the stored submit URI has the scheme https (as url.Parse reports it)
StoredIsHTTPS == Parse(cfg.SubmitURI).err = "" /\ Parse(cfg.SubmitURI).Scheme = <<"https">>

\* C11: a SetSubmitURI call with a well-formed absolute URI returns no error
\* and leaves the TLS flag true exactly when the scheme of the URI it stored
\* is https; and on a configuration that started empty the TLS flag is
\* always true exactly when the stored URI has the scheme https.
C11_TLSFollowsScheme ==
  /\ [](cfg.UseTLS <=> StoredIsHTTPS)
  /\ [][lastArg' = "absolute" =>
          (lastErr' = NoErr /\ (cfg'.UseTLS <=> StoredIsHTTPS'))]_vars

\* an upper-case https URI was stored and a later call was rejected
C11_Witness ==
  /\ cfg.UseTLS
  /\ cfg.SubmitURI = <<"HTTPS", ":", "/">>
  /\ lastArg = "relative"

\* a URI whose scheme only starts with https was stored
C11_WitnessOther ==
  /\ ~cfg.UseTLS
  /\ cfg.SubmitURI = <<"https", "1", ":">>
  /\ lastArg = "absolute"

\* the responses (not transport failures) Run has received so far
Received ==
  {Deref(postRes) : x \in {y \in {1} : postRes # Nil /\ Deref(postRes).err = ""}}
  \cup {polls[i] : i \in {k \in 1..Len(polls) : polls[k].err = ""}}

\* C12: sessionFromResponse gives the empty-body error for every response
\* with an empty body, whatever its status code and content type; gives a
\* content-type error for every non-empty body with another content type;
\* and gives a session only for a non-empty body of the session media type.
C12_Decoder ==
  \A res \in Received :
    /\ res.Body.kind = "empty" =>
         sessionFromResponse(res) = [j |-> Nil, err |-> Err("empty body", 0, "")]
    /\ (res.Body.kind # "empty" /\ res.ContentType # sessionMediaType) =>
         /\ sessionFromResponse(res).j = Nil
         /\ sessionFromResponse(res).err.msg = "session resource with unexpected content type"
    /\ sessionFromResponse(res).j # Nil =>
         (res.Body.kind # "empty" /\ res.ContentType = sessionMediaType)

\* C13: when the most recent SetAuth call supplied a non-nil authenticator,
\* the configuration holds that authenticator and so does any client it
\* holds, whatever SetAuth, SetClient and initClient calls were made.
C13_ClientAuth ==
  (lastAuth # Nil /\ Deref(lastAuth) # "nil") =>
    /\ cfg.Auth = Deref(lastAuth)
    /\ cfg.Client # Nil => Deref(cfg.Client).Auth = Deref(lastAuth)

\* a supplied client carries an authenticator only SetAuth can have given it
C13_Witness ==
  /\ lastAuth = Ptr("a2")
  /\ cfg.Client # Nil
  /\ Deref(cfg.Client).kind = "supplied"
  /\ Deref(cfg.Client).Auth = "a2"

\* a client built by initClient after SetAuth carries its authenticator
C13_WitnessBuilt ==
  /\ lastAuth = Ptr("a2")
  /\ cfg.Client # Nil
  /\ Deref(cfg.Client).kind = "TLS"
  /\ Deref(cfg.Client).Auth = "a2"

\* C14: PostResource is called only when the submit URI of the
\* configuration is non-empty, well-formed and absolute.
C14_AbsoluteOnly ==
  Count("PostResource") > 0 =>
    /\ cfg.SubmitURI # <<>>
    /\ Parse(cfg.SubmitURI).err = ""
    /\ IsAbs(Parse(cfg.SubmitURI))

\* what the poller is to return for a poll response that does not report
\* processing
PollVerdict(res) ==
  IF res.err # "" THEN [session |-> Nil, err |-> Err("session resource fetch failed", 0, res.err)]
  ELSE IF res.StatusCode # 200
  THEN [session |-> Nil,
        err |-> Err("session resource fetch returned an unexpected status", res.StatusCode, "")]
  ELSE IF ~Decodes(res) THEN [session |-> Nil, err |-> sessionFromResponse(res).err]
  ELSE IF SessionOf(res).Status = "success"
  THEN [session |-> Ptr(SessionOf(res)), err |-> NoErr]
  ELSE IF SessionOf(res).Status = "failed"
  THEN [session |-> Nil,
        err |-> IF SessionOf(res).FailureReason # Nil
                THEN Err("submission failed: ", 0, Deref(SessionOf(res).FailureReason))
                ELSE Err("submission failed", 0, "")]
  ELSE [session |-> Nil,
        err |-> Err("unexpected session state in 200 response", 0, SessionOf(res).Status)]

\* C15: every Get but the latest was answered by a 200 response reporting
\* processing; a Get answered by anything else is the last one, and the
\* poller has returned the outcome that answer stands for.
C15_NoRetry ==
  /\ Count("Get") \in {Len(polls), Len(polls) + 1}
  /\ \A i \in 1..Len(polls) :
       (i < Count("Get") => Reports(polls[i], "processing"))
  /\ \A i \in 1..Len(polls) :
       ~Reports(polls[i], "processing") =>
         /\ i = Len(polls)
         /\ Count("Get") = i
         /\ pc \in {"delete", "done"}
         /\ pollRet = Ptr(PollVerdict(polls[i]))

C15_Witness ==
  /\ pc = "done"
  /\ Len(polls) = 2
  /\ Last(polls).err # ""
  /\ Count("Get") = 2
  /\ ret.err.msg = "session resource fetch failed"

\* polling ended on a response that could not be decoded
C15_WitnessDecode ==
  /\ pc = "done"
  /\ Len(polls) = 2
  /\ Last(polls).err = ""
  /\ Last(polls).StatusCode = 200
  /\ ~Decodes(Last(polls))
  /\ ret.err.msg = "failure decoding session resource"

\* C16: once Run has resolved its client (the submit URI being non-empty),
\* a client the configuration already had is the one Run uses, whatever the
\* flags; without one, Run uses a plain client when UseTLS is false, an
\* insecure TLS client when UseTLS and IsInsecure are true, a verifying TLS
\* client with the configured CA certificates when UseTLS is true and
\* IsInsecure false; and when that client cannot be built Run has returned
\* an error and a nil session without calling anything.
C16_Resolution ==
  (pc # "idle" /\ cfg.SubmitURI # <<>>) =>
    /\ cfg.Client # Nil => rcfg.Client = cfg.Client
    /\ (cfg.Client = Nil /\ ~cfg.UseTLS) =>
         rcfg.Client = Ptr([kind |-> "plain", Auth |-> cfg.Auth, CACerts |-> <<>>])
    /\ (cfg.Client = Nil /\ cfg.UseTLS /\ cfg.IsInsecure) =>
         rcfg.Client = Ptr([kind |-> "insecureTLS", Auth |-> cfg.Auth, CACerts |-> <<>>])
    /\ (cfg.Client = Nil /\ cfg.UseTLS /\ ~cfg.IsInsecure) =>
         \/ rcfg.Client = Ptr([kind |-> "TLS", Auth |-> cfg.Auth, CACerts |-> cfg.CACerts])
         \/ /\ rcfg.Client = Nil
            /\ pc = "done"
            /\ log = <<>>
            /\ ret.session = Nil
            /\ ret.err # NoErr
    /\ rcfg.Client = Nil => log = <<>>

\* the TLS client could not be built
C16_Witness ==
  /\ pc = "done"
  /\ cfg.Client = Nil
  /\ cfg.UseTLS
  /\ ~cfg.IsInsecure
  /\ cfg.CACerts = <<"bad.pem">>
  /\ ret.err.msg = "could not read cert"
  /\ log = <<>>

\* a plain client was built although IsInsecure and CA paths were set
C16_WitnessPlain ==
  /\ pc = "done"
  /\ cfg.Client = Nil
  /\ ~cfg.UseTLS
  /\ cfg.IsInsecure
  /\ cfg.CACerts = <<"bad.pem">>
  /\ Deref(rcfg.Client).kind = "plain"
  /\ Len(log) >= 1

\* a supplied client was kept although the flags ask for TLS
C16_WitnessKept ==
  /\ pc = "done"
  /\ cfg.Client # Nil
  /\ cfg.UseTLS
  /\ Deref(rcfg.Client).kind = "supplied"
  /\ Len(log) >= 1

\* C17: when the configuration has an authenticator, every request of Run
\* is made by a method of common.Client, the path on which the client's
\* authenticator sets the Authorization header.
C17_Authenticated ==
  cfg.Auth # "nil" => \A i \in Requests : log[i].via = "Client"

\* the calls of log after the first are Gets and Sleeps in turn, starting
\* with a Get, then at most one DeleteResource, then at most its log line
RECURSIVE TailShape(_, _)
TailShape(i, expect) ==
  IF i > Len(log) THEN TRUE
  ELSE IF log[i].op = "Get" THEN expect = "get" /\ TailShape(i + 1, "sleep")
  ELSE IF log[i].op = "Sleep" THEN expect = "sleep" /\ TailShape(i + 1, "get")
  ELSE IF log[i].op = "DeleteResource"
  THEN expect \in {"get", "sleep"} /\ TailShape(i + 1, "printf")
  ELSE IF log[i].op = "Printf" THEN expect = "printf" /\ i = Len(log)
  ELSE FALSE

\* the requests so far are one POST to the submit URI, then GETs to the URI
\* taken from the Location of the POST response with one sleep between any
\* two of them and none before the first, then at most one DELETE to that
\* URI and no request after it; and each was sent after the previous one was
\* answered
RequestShape ==
  /\ Len(log) >= 1
  /\ log[1] = [op |-> "PostResource", uri |-> cfg.SubmitURI, via |-> "Client"]
  /\ TailShape(2, "get")
  /\ postRes = Nil <=> pc = "post"
  /\ Len(log) >= 2 =>
       /\ ExtractLocation(Deref(postRes), cfg.SubmitURI).err = ""
       /\ sessionURI = ExtractLocation(Deref(postRes), cfg.SubmitURI).uri
  /\ \A i \in 1..Len(log) :
       log[i].op \in {"Get", "DeleteResource", "Printf"} => log[i].uri = sessionURI
  /\ Count("Get") = Len(polls) + (IF pc = "get" THEN 1 ELSE 0)
  /\ Count("Sleep") <= Len(polls)
  /\ Count("DeleteResource") = (IF pc = "delete" \/ delRes # Nil THEN 1 ELSE 0)
  /\ delRes # Nil => pc = "done"

\* Run got past check and initClient
PastResolution == pc # "idle" /\ check(cfg) = NoErr /\ initClient(cfg).err = NoErr

\* C18 as stated: the requests of every Run that has returned form the
\* sequence of exactly one POST, GETs and at most one DELETE.
C18_Original == pc = "done" => RequestShape

\* C18 amended: the requests of a Run that got past the configuration check
\* and the transport resolution form the sequence of RequestShape at every
\* moment; a Run that did not get past them makes no request.
C18_Sequence ==
  /\ PastResolution => RequestShape
  /\ ~PastResolution => log = <<>>

C18_Witness ==
  /\ pc = "done"
  /\ Count("Get") = 2
  /\ Count("Sleep") = 1
  /\ Count("DeleteResource") = 1
  /\ Deref(postRes).Location = Ptr(<<"/", "1">>)
  /\ sessionURI = <<"http", ":", "/", "1">>

\* C19: every Run that was called returns in the end, whatever the server
\* answers, and it never sleeps more than MaxAttempts - 1 times (not at all
\* when MaxAttempts is below 1), which is within MaxAttempts poll periods.
C19_Returns ==
  /\ [](/\ MaxAttempts >= 1 => Count("Sleep") <= MaxAttempts - 1
        /\ MaxAttempts < 1 => Count("Sleep") = 0
        /\ Count("Sleep") <= attempt)
  /\ (pc # "idle") ~> (pc = "done")

\* Run returned after a server reported processing on every poll
C19_Witness ==
  /\ pc = "done"
  /\ MaxAttempts = MaxBudget
  /\ Count("Sleep") = MaxBudget - 1
  /\ AllProcessing
  /\ Len(polls) = MaxBudget - 1

\* C20: what Run returned is either a session and no error or an error and
\* no session, and a session it returned has the status success.
C20_OneOf ==
  pc = "done" =>
    /\ ret.session # Nil <=> ret.err = NoErr
    /\ ret.session # Nil => Deref(ret.session).Status = "success"

\* Run returned an error and no session for a decoded session that failed
C20_Witness ==
  /\ pc = "done"
  /\ postRes # Nil
  /\ Reports(Deref(postRes), "failed")
  /\ ret.session = Nil
  /\ ret.err # NoErr

\* Run returned a session and no error after polling
C20_WitnessSession ==
  /\ pc = "done"
  /\ polls # <<>>
  /\ ret.session # Nil
  /\ ret.err = NoErr

\* the POST outcome res is one after which Run returns without calling the
\* poller: a transport failure, a status code other than 200 and 201, a body
\* that does not decode, a 200, a 201 whose session is not processing, or a
\* 201 from which no session URI can be extracted
NoPollPath(res) ==
  \/ res.err # ""
  \/ res.StatusCode \notin {200, 201}
  \/ ~Decodes(res)
  \/ res.StatusCode = 200
  \/ SessionOf(res).Status # "processing"
  \/ ExtractLocation(res, cfg.SubmitURI).err # ""

\* C21: a DeleteResource call is made, or is in progress, only when the
\* poller was called and DeleteSession is set: with DeleteSession unset there
\* is none on any path, and with it set there is none before PostResource
\* has returned nor after a POST outcome that ends Run before the poller
\* (transport failure, status code other than 200 and 201, decode failure,
\* 200, 201 not processing, 201 without a usable Location).
C21_NoDelete ==
  /\ (Deletes # {} \/ pc = "delete" \/ delRes # Nil) =>
       (PollingStarted /\ pollRet # Nil /\ cfg.DeleteSession /\ rcfg.DeleteSession)
  /\ ~cfg.DeleteSession => (Deletes = {} /\ pc # "delete" /\ delRes = Nil)
  /\ postRes = Nil => (Deletes = {} /\ ~PollingStarted)
  /\ (postRes # Nil /\ NoPollPath(Deref(postRes))) =>
       /\ pc = "done"
       /\ ~PollingStarted
       /\ Deletes = {}
       /\ delRes = Nil
       /\ Len(log) = 1

\* DeleteSession set, a 201 whose session is not processing: no DELETE
C21_Witness ==
  /\ pc = "done"
  /\ cfg.DeleteSession
  /\ postRes # Nil
  /\ Decodes(Deref(postRes))
  /\ Deref(postRes).StatusCode = 201
  /\ SessionOf(Deref(postRes)).Status # "processing"
  /\ Deref(postRes).Location = AbsLocation
  /\ Deletes = {}

\* DeleteSession unset, the poller called and returned: no DELETE
C21_WitnessUnset ==
  /\ pc = "done"
  /\ ~cfg.DeleteSession
  /\ PollingStarted
  /\ polls # <<>>
  /\ pollRet # Nil
  /\ Deletes = {}

\* DeleteSession set, POST transport failure: no DELETE
C21_WitnessTransport ==
  /\ pc = "done"
  /\ cfg.DeleteSession
  /\ postRes # Nil
  /\ Deref(postRes).err # ""
  /\ Deletes = {}

\* DeleteSession set, the 200 path: no DELETE
C21_WitnessSync ==
  /\ pc = "done"
  /\ cfg.DeleteSession
  /\ postRes # Nil
  /\ Reports(Deref(postRes), "success")
  /\ Deref(postRes).Location = AbsLocation
  /\ ret.session # Nil
  /\ Deletes = {}

\* the fields of SubmitConfig other than Client
PlainFields == DOMAIN ZeroConfig \ {"Client"}

\* C22: no step of Run, and no return of it, changes the caller's
\* SubmitConfig; every call starts from a copy of it; between its call and
\* its return Run works on one copy, whose fields other than Client are the
\* caller's and whose Client, when the caller has none, is the one this call
\* of initClient built, so every request of the call goes through it; and
\* a later call on a SubmitConfig with no Client finds none and builds one
\* again.
C22_CallerConfig ==
  /\ [][cfg' = cfg]_vars
  /\ [][pc \notin {"idle", "done"} => rcfg' = rcfg]_vars
  /\ [](pc = "idle" => rcfg = cfg)
  /\ [](\A f \in PlainFields : rcfg[f] = cfg[f])
  /\ [](Requests # {} =>
         /\ rcfg.Client # Nil
         /\ rcfg.Client = initClient(cfg).cfg.Client
         /\ cfg.Client = Nil => Deref(rcfg.Client).kind # "supplied")
  /\ [][(calls' = calls + 1 /\ cfg.Client = Nil) =>
          /\ rcfg.Client = Nil
          /\ cfg'.Client = Nil
          /\ check(cfg) = NoErr => rcfg'.Client = initClient(cfg).cfg.Client
          /\ (check(cfg) = NoErr /\ initClient(cfg).err = NoErr) =>
               (rcfg'.Client # Nil /\ pc' = "post")]_vars

\* the second Run on a SubmitConfig without a Client has built a client,
\* polled and deleted through it, and returned; the caller still has none
C22_Witness ==
  /\ calls = 2
  /\ pc = "done"
  /\ cfg.Client = Nil
  /\ rcfg.Client # Nil
  /\ polls # <<>>
  /\ Cardinality(Deletes) = 1
  /\ ret.session # Nil

\* the second Run failed to build its TLS client, as the first did
C22_WitnessFailed ==
  /\ calls = 2
  /\ pc = "done"
  /\ cfg.Client = Nil
  /\ cfg.UseTLS
  /\ ~cfg.IsInsecure
  /\ ret.err # NoErr
  /\ cfg.SubmitURI # <<>>
  /\ log = <<>>

\* the second Run on a SubmitConfig with a Client used that Client
C22_WitnessSupplied ==
  /\ calls = 2
  /\ pc = "done"
  /\ cfg.Client # Nil
  /\ rcfg.Client = cfg.Client
  /\ polls # <<>>
====
